---- MODULE Spec2Model ----
(***************************************************************************)
(* Model of gem_scrapper.py: the dedup ledger with expiry (load_sent,      *)
(* save_sent), the per-keyword search task with retry and backoff          *)
(* (search_gem), and the scoring / filter chain / aggregation of main().   *)
(*                                                                         *)
(* Text is modelled as a sequence of words separated by single blanks, so  *)
(* re.findall(r"\w+", s) is the set of its words and a \b...\b phrase      *)
(* search is the search for a contiguous run of words.  Scores are kept in *)
(* tenths (total_score * 10) so that 0.7*f_sort + 0.3*f_part is integral.  *)
(* Dates are day numbers; a run sees one UTC date.                         *)
(***************************************************************************)
EXTENDS Integers, Sequences, FiniteSets, TLC

VARIABLES
    today,      \* datetime.utcnow().date() of the current run
    site,       \* what the marketplace returns for each keyword search
    ledgerFile, \* SENT_FILE: whether it exists, and its rows below the header
    preLoad,    \* content of SENT_FILE when load_sent opened it
    sent_ids,   \* module global sent_ids = load_sent()
    phase,      \* position of the main thread
    pc,         \* position of each keyword's search_gem task
    attempt,    \* loop variable of search_gem, per keyword
    waits,      \* the time.sleep durations a task has performed, in order
    outcome,    \* how the last fetch attempt of a task ended
    fut,        \* the value each finished future holds
    results,    \* main(): results
    new_recs,   \* main(): new_recs
    report,     \* the report file of this run: whether written, and its rows
    prevOK,     \* the previous run ran to its end, on the same marketplace content
    prevFut,    \* the futures of that run
    tmpFile,    \* load_sent: the rows written to the temporary file so far
    mail        \* what became of send_email in this run

vars == << today, site, ledgerFile, preLoad, sent_ids, phase, pc, attempt,
           waits, outcome, fut, results, new_recs, report, prevFut, prevOK,
           tmpFile, mail >>

\* ---------------------------------------------------------------- bounds
MaxDay == 3

\* --------------------------------------------------------- configuration
RETRIES == 3
BACKOFF == 2
MAX_THR == 2
FW == 1
DEFAULT_MULTI == 1000
DEFAULT_SINGLE == 1500
TONER_THRESHOLD == 1800
HEALTH_WEIGHT == 20

Unparseable == 0

KW_PT == << "printer", "toner" >>
KW_TONER == << "toner" >>
KW_EMPTY == << >>

KEYWORDS == << KW_PT, KW_TONER, KW_EMPTY >>

KeywordSet == { KEYWORDS[i] : i \in DOMAIN KEYWORDS }

SYNONYMS(kw) ==
    IF kw = KW_PT THEN << << "printer", "cartridge" >>, << "ink", "cartridge" >> >>
    ELSE << >>

THRESHOLDS == (KW_TONER :> TONER_THRESHOLD)

DEPTS == ("health" :> HEALTH_WEIGHT)

\* ------------------------------------------------------------ text model
Lower(w) ==
    CASE w = "Printer" -> "printer"
      [] w = "Toner" -> "toner"
      [] OTHER -> w

LowerSeq(s) == [i \in DOMAIN s |-> Lower(s[i])]

\* set(re.findall(r"\w+", s.lower()))
Tokens(s) == { Lower(s[i]) : i \in DOMAIN s }

\* re.compile(r"\b(?:term)\b", re.IGNORECASE).search(text) for one term
Occurs(term, text) ==
    /\ Len(text) > 0
    /\ \E i \in 1..(Len(text) - Len(term) + 1) :
          \A j \in 1..Len(term) : Lower(text[i + j - 1]) = Lower(term[j])

\* PHRASE_PATTERNS[kw].search(items)
PhraseMatch(kw, items) ==
    \/ Occurs(LowerSeq(kw), items)
    \/ \E n \in DOMAIN SYNONYMS(kw) : Occurs(SYNONYMS(kw)[n], items)

CORE_TOKENS(kw) == Tokens(kw)

PenaltyWords == { "spare", "spares", "component", "components", "part", "parts" }

\* a PENALTY_RE without the optional plural s
PenaltyMatchSingular(items) ==
    \E i \in DOMAIN items : Lower(items[i]) \in { "spare", "component", "part" }

\* PENALTY_RE.search(rec["items"])
PenaltyMatch(items) == \E i \in DOMAIN items : Lower(items[i]) \in PenaltyWords

\* ------------------------------------------------- marketplace content
T_PT == << "printer", "toner" >>
T_PT_CAP == << "Printer", "Toner" >>
T_PC == << "printer", "cartridge" >>
T_TS == << "toner", "spares" >>
T_IC == << "ink", "cartridge" >>
T_ERR == << "toner", "refill" >>

Card(b, it, d, ed) == [bid_no |-> b, items |-> it, department |-> d, ed_raw |-> ed]

CardA == Card("B1", T_PT, "health", 2)
CardB == Card("B2", T_PC, "railways", 3)
CardC == Card("B2", T_TS, "health", 3)
CardD == Card("B1", T_PT_CAP, "railways", Unparseable)
CardE == Card("B2", T_IC, "health", 1)
CardF == Card("B3", T_ERR, "health", 3)

Site1 == (KW_PT :> << CardB, CardA >>) @@ (KW_TONER :> << CardF, CardA >>) @@ (KW_EMPTY :> << >>)
Site2 == (KW_PT :> << CardE, CardD >>) @@ (KW_TONER :> << CardC, CardD >>) @@ (KW_EMPTY :> << CardA >>)

Sites == { Site1, Site2 }

Row(b, e) == [bid_no |-> b, end_date |-> e]

File(rows) == [exists |-> TRUE, rows |-> rows]

NoFile == [exists |-> FALSE, rows |-> << >>]

InitialLedgers == { NoFile, File(<< Row("B1", 1), Row("B2", 3) >>) }

\* ------------------------------------------------------------ extraction
\* extract_bid: the end date is parsed from the card, "now" when unparseable
ExtractEndDate(ed_raw, now) == IF ed_raw = Unparseable THEN now ELSE ed_raw

extract_bid(card, now) ==
    [bid_no |-> card.bid_no, items |-> card.items, department |-> card.department,
     end_date |-> ExtractEndDate(card.ed_raw, now)]

\* the cards of all pages of one search, extracted in page order
ExtractAll(cards, now) == [i \in DOMAIN cards |-> extract_bid(cards[i], now)]

\* --------------------------------------------------------------- scoring
\* fuzz.token_sort_ratio(kw, items), in whole percent, for the texts above
TokenSortRatio(kw, items) ==
    CASE kw = KW_PT /\ items = T_PT -> 100
      [] kw = KW_PT /\ items = T_PT_CAP -> 85
      [] kw = KW_PT /\ items = T_PC -> 47
      [] kw = KW_PT /\ items = T_TS -> 72
      [] kw = KW_PT /\ items = T_IC -> 38
      [] kw = KW_TONER /\ items = T_PT -> 56
      [] kw = KW_TONER /\ items = T_PT_CAP -> 56
      [] kw = KW_TONER /\ items = T_PC -> 36
      [] kw = KW_TONER /\ items = T_TS -> 59
      [] kw = KW_TONER /\ items = T_IC -> 22
      [] OTHER -> 0

\* fuzz.partial_ratio(kw, items), in whole percent, for the texts above
PartialRatio(kw, items) ==
    CASE kw = KW_PT /\ items = T_PT -> 100
      [] kw = KW_PT /\ items = T_PT_CAP -> 88
      [] kw = KW_PT /\ items = T_PC -> 77
      [] kw = KW_PT /\ items = T_TS -> 59
      [] kw = KW_PT /\ items = T_IC -> 45
      [] kw = KW_TONER /\ items = T_PT -> 100
      [] kw = KW_TONER /\ items = T_PT_CAP -> 89
      [] kw = KW_TONER /\ items = T_PC -> 60
      [] kw = KW_TONER /\ items = T_TS -> 100
      [] kw = KW_TONER /\ items = T_IC -> 40
      [] OTHER -> 0

Max(a, b) == IF a >= b THEN a ELSE b

\* sum(w for d,w in DEPTS.items() if re.search(rf"\b{d}\b", dept))
Boost(dept) == IF dept \in DOMAIN DEPTS THEN DEPTS[dept] ELSE 0

\* the text on which a call inside the try block of score_components raises
ScoringRaises(rec, kw) == rec.items = T_ERR

\* the try block of score_components: (...)[4], in tenths
ScoreTotal(rec, kw) ==
    LET f_sort == TokenSortRatio(kw, rec.items)
        f_part == PartialRatio(kw, rec.items)
        fuzzy10 == 7 * f_sort + 3 * f_part
        core == CORE_TOKENS(kw)
        toks == Tokens(rec.items)
        cov_pct == (Cardinality(core \cap toks) * 100) \div Max(Cardinality(core), 1)
        boost == Boost(rec.department)
    IN  fuzzy10 * FW + 10 * cov_pct + 10 * boost

\* a score_components whose except branch keeps the coverage and boost terms
score_components_partial(rec, kw) ==
    IF ScoringRaises(rec, kw)
    THEN 10 * 100 + 10 * Boost(rec.department)
    ELSE ScoreTotal(rec, kw)

\* score_components(rec, kw)[4]: except Exception: return 0,0,0,0,0
score_components(rec, kw) ==
    IF ScoringRaises(rec, kw) THEN 0 ELSE ScoreTotal(rec, kw)

Scored(b, kw) ==
    [keyword |-> kw, bid_no |-> b.bid_no, items |-> b.items,
     department |-> b.department, end_date |-> b.end_date,
     total_score |-> score_components(b, kw)]

RECURSIVE InsertDesc(_, _)
\* a sort that leaves the records in fetch order
InsertBack(s, r) == Append(s, r)

\* the position list.sort(key=total_score, reverse=True) gives to r in s
InsertDesc(s, r) ==
    IF s = << >> THEN << r >>
    ELSE IF Head(s).total_score >= r.total_score
         THEN << Head(s) >> \o InsertDesc(Tail(s), r)
         ELSE << r >> \o s

RECURSIVE SortDesc(_)
SortDesc(s) ==
    IF s = << >> THEN << >>
    ELSE InsertDesc(SortDesc(SubSeq(s, 1, Len(s) - 1)), s[Len(s)])

\* main(): scored, after the sort
ScoredSorted(raw, kw) == SortDesc([i \in DOMAIN raw |-> Scored(raw[i], kw)])

\* ---------------------------------------------------------- filter chain
\* coverage_threshold(core_size), as the fraction << numerator, denominator >>
coverage_threshold(core_size) ==
    IF core_size <= 1 THEN << 1, 1 >> ELSE << core_size - 1, core_size >>

\* the two default thresholds taken for each other
ThreshSwapped(kw) ==
    IF kw \in DOMAIN THRESHOLDS THEN THRESHOLDS[kw]
    ELSE IF Cardinality(CORE_TOKENS(kw)) > 1 THEN DEFAULT_SINGLE ELSE DEFAULT_MULTI

\* thresh of main()
Thresh(kw) ==
    IF kw \in DOMAIN THRESHOLDS THEN THRESHOLDS[kw]
    ELSE IF Cardinality(CORE_TOKENS(kw)) > 1 THEN DEFAULT_MULTI ELSE DEFAULT_SINGLE

\* len(CORE_TOKENS[kw] & toks) / len(CORE_TOKENS[kw]) < cov_req:
\* "raise" is the ZeroDivisionError of a keyword without core tokens
CoverageGate(kw, items) ==
    LET k == Cardinality(CORE_TOKENS(kw))
        c == Cardinality(CORE_TOKENS(kw) \cap Tokens(items))
        req == coverage_threshold(k)
    IN  IF k = 0 THEN "raise"
        ELSE IF c * req[2] < req[1] * k THEN "reject" ELSE "pass"

\* a filter loop without the test against sent_ids
GateSkipSent(rec, kw, sent) ==
    IF ~PhraseMatch(kw, rec.items) THEN "phrase"
    ELSE IF PenaltyMatch(rec.items) THEN "penalty"
    ELSE IF CoverageGate(kw, rec.items) = "raise" THEN "raise"
    ELSE IF CoverageGate(kw, rec.items) = "reject" THEN "coverage"
    ELSE IF rec.total_score < Thresh(kw) THEN "score"
    ELSE "accept"

\* the five tests of the loop body of main(), in its order
Gate(rec, kw, sent) ==
    IF rec.bid_no \in sent THEN "sent"
    ELSE IF ~PhraseMatch(kw, rec.items) THEN "phrase"
    ELSE IF PenaltyMatch(rec.items) THEN "penalty"
    ELSE IF CoverageGate(kw, rec.items) = "raise" THEN "raise"
    ELSE IF CoverageGate(kw, rec.items) = "reject" THEN "coverage"
    ELSE IF rec.total_score < Thresh(kw) THEN "score"
    ELSE "accept"

\* for rec in scored: ... filtered.append(rec); new_recs.append(...)
\* stops at the record whose coverage test raises
RECURSIVE RunFilter(_, _, _)
RunFilter(scored, kw, sent) ==
    IF scored = << >> THEN [raised |-> FALSE, filtered |-> << >>]
    ELSE LET g == Gate(Head(scored), kw, sent)
             rest == RunFilter(Tail(scored), kw, sent)
         IN  IF g = "raise" THEN [raised |-> TRUE, filtered |-> << >>]
             ELSE IF g = "accept"
                  THEN [raised |-> rest.raised,
                        filtered |-> << Head(scored) >> \o rest.filtered]
                  ELSE rest

\* ---------------------------------------------------------------- ledger
\* a load_sent that also drops the entries ending today
KeepRowStrict(r, now) == r.end_date > now

\* end_date >= today, of load_sent
KeepRow(r, now) == r.end_date >= now

\* keep_rows of load_sent
keep_rows(file, now) == SelectSeq(file.rows, LAMBDA r : KeepRow(r, now))

\* valid_ids of load_sent
valid_ids(file, now) ==
    { keep_rows(file, now)[i].bid_no : i \in DOMAIN keep_rows(file, now) }

\* a save_sent that creates the file but loses the records
save_sent_lost(file, recs) == File(file.rows)

\* save_sent(new_records): append, creating the file when it is missing
save_sent(file, recs) == File(file.rows \o recs)

\* the dicts appended to new_recs for the accepted records
Staged(filtered) ==
    [i \in DOMAIN filtered |-> Row(filtered[i].bid_no, filtered[i].end_date)]

\* ------------------------------------------------------------ search_gem
\* a backoff that does not grow
BackoffFlat(a) == BACKOFF

\* BACKOFF*(2**(attempt-1))
Backoff(a) == BACKOFF * (2 ^ (a - 1))

\* a loop that runs one attempt too many
HasNextAttemptOneMore(a) == a <= RETRIES

\* range(1, RETRIES+1) has a next value after a
HasNextAttempt(a) == a < RETRIES

Running == { kw \in KeywordSet : pc[kw] \in { "try", "sleep" } }

Processed == { results[i].kw : i \in DOMAIN results }

EmptyFut == [kw \in KeywordSet |-> << >>]

NoReport == [written |-> FALSE, rows |-> << >>]

\* ------------------------------------------------------------------ Init
Init ==
    /\ today = 2
    /\ site \in Sites
    /\ ledgerFile \in InitialLedgers
    /\ preLoad = NoFile
    /\ sent_ids = {}
    /\ phase = "start"
    /\ pc = [kw \in KeywordSet |-> "queued"]
    /\ attempt = [kw \in KeywordSet |-> 0]
    /\ waits = [kw \in KeywordSet |-> << >>]
    /\ outcome = [kw \in KeywordSet |-> "none"]
    /\ fut = EmptyFut
    /\ results = << >>
    /\ new_recs = << >>
    /\ report = NoReport
    /\ prevFut = EmptyFut
    /\ prevOK = FALSE
    /\ tmpFile = << >>
    /\ mail = "none"

\* --------------------------------------------------------------- actions
\* load_sent, lines 50-66: the file is read, keep_rows and valid_ids are
\* built in memory; line 68: the temporary file is created
LoadRead ==
    /\ phase = "start"
    /\ preLoad' = ledgerFile
    /\ tmpFile' = << >>
    /\ phase' = "loading"
    /\ UNCHANGED << today, site, ledgerFile, sent_ids, pc, attempt, waits,
                    outcome, fut, results, new_recs, report, prevFut, prevOK,
                    mail >>

\* a load_sent that writes the kept rows into the ledger file itself
LoadWriteInPlace ==
    /\ phase = "loading"
    /\ Len(tmpFile) < Len(keep_rows(preLoad, today))
    /\ tmpFile' = Append(tmpFile, keep_rows(preLoad, today)[Len(tmpFile) + 1])
    /\ ledgerFile' = File(tmpFile')
    /\ UNCHANGED << today, site, preLoad, sent_ids, phase, pc,
                    attempt, waits, outcome, fut, results, new_recs, report,
                    prevFut, prevOK, mail >>

\* writer.writerows(keep_rows): the next row goes to the temporary file
LoadWrite ==
    /\ phase = "loading"
    /\ Len(tmpFile) < Len(keep_rows(preLoad, today))
    /\ tmpFile' = Append(tmpFile, keep_rows(preLoad, today)[Len(tmpFile) + 1])
    /\ UNCHANGED << today, site, ledgerFile, preLoad, sent_ids, phase, pc,
                    attempt, waits, outcome, fut, results, new_recs, report,
                    prevFut, prevOK, mail >>

\* os.replace(tmp.name, SENT_FILE); return valid_ids; sent_ids = ...
LoadReplace ==
    /\ phase = "loading"
    /\ Len(tmpFile) = Len(keep_rows(preLoad, today))
    /\ ledgerFile' = File(tmpFile)
    /\ sent_ids' = valid_ids(preLoad, today)
    /\ tmpFile' = << >>
    /\ phase' = "pool"
    /\ UNCHANGED << today, site, preLoad, pc, attempt, waits, outcome, fut,
                    results, new_recs, report, prevFut, prevOK, mail >>

\* sent_ids = load_sent(), at import
LoadSent == LoadRead \/ LoadWrite \/ LoadReplace

\* the process is stopped inside load_sent and started again later
LoadKilled ==
    /\ phase = "loading"
    /\ phase' = "start"
    /\ tmpFile' = << >>
    /\ prevOK' = FALSE
    /\ prevFut' = EmptyFut
    /\ UNCHANGED << today, site, ledgerFile, preLoad, sent_ids, pc, attempt,
                    waits, outcome, fut, results, new_recs, report, mail >>

\* a pool thread takes the next submitted search_gem(kw) from the work queue
StartTask(kw) ==
    /\ phase \in { "pool", "crashed" }
    /\ pc[kw] = "queued"
    /\ Cardinality(Running) < MAX_THR
    /\ \A i, j \in DOMAIN KEYWORDS :
          (KEYWORDS[j] = kw /\ i < j) => pc[KEYWORDS[i]] # "queued"
    /\ pc' = [pc EXCEPT ![kw] = "try"]
    /\ attempt' = [attempt EXCEPT ![kw] = 1]
    /\ UNCHANGED << today, site, ledgerFile, preLoad, sent_ids, phase, waits,
                    outcome, fut, results, new_recs, report, prevFut, prevOK,
                    tmpFile, mail >>

\* search_gem returns value v: its locals attempt and the sleeps are gone,
\* the future holds v
Return(kw, how, v) ==
    /\ pc' = [pc EXCEPT ![kw] = "done"]
    /\ outcome' = [outcome EXCEPT ![kw] = how]
    /\ fut' = [fut EXCEPT ![kw] = v]
    /\ attempt' = [attempt EXCEPT ![kw] = 0]

\* the attempt reaches "return bids"
FetchOk(kw) ==
    /\ phase \in { "pool", "crashed" }
    /\ pc[kw] = "try"
    /\ Return(kw, "ok", ExtractAll(site[kw], today))
    /\ waits' = [waits EXCEPT ![kw] = << >>]
    /\ UNCHANGED << today, site, ledgerFile, preLoad, sent_ids, phase,
                    results, new_recs, report, prevFut, prevOK,
                    tmpFile, mail >>

\* a timeout handler that falls through to the sleep, as other errors do
FetchTimeoutRetried(kw, kind) ==
    /\ phase = "pool"
    /\ pc[kw] = "try"
    /\ pc' = [pc EXCEPT ![kw] = "sleep"]
    /\ outcome' = [outcome EXCEPT ![kw] = kind]
    /\ waits' = [waits EXCEPT ![kw] = Append(@, BACKOFF * (2 ^ (attempt[kw] - 1)))]
    /\ UNCHANGED << today, site, ledgerFile, preLoad, sent_ids, phase, attempt,
                    fut, results, new_recs, report, prevFut, prevOK,
                    tmpFile, mail >>

\* except PlaywrightTimeout: raised by page.goto ("nav_timeout") and by
\* page.wait_for_selector ("card_timeout") alike; return []
FetchTimeout(kw, kind) ==
    /\ phase \in { "pool", "crashed" }
    /\ pc[kw] = "try"
    /\ Return(kw, kind, << >>)
    /\ waits' = [waits EXCEPT ![kw] = << >>]
    /\ UNCHANGED << today, site, ledgerFile, preLoad, sent_ids, phase,
                    results, new_recs, report, prevFut, prevOK,
                    tmpFile, mail >>

\* an error handler that returns [] at once, without sleep or retry
FetchErrorAbandon(kw) ==
    /\ phase = "pool"
    /\ pc[kw] = "try"
    /\ pc' = [pc EXCEPT ![kw] = "done"]
    /\ outcome' = [outcome EXCEPT ![kw] = "error"]
    /\ fut' = [fut EXCEPT ![kw] = << >>]
    /\ attempt' = [attempt EXCEPT ![kw] = 0]
    /\ waits' = [waits EXCEPT ![kw] = << >>]
    /\ UNCHANGED << today, site, ledgerFile, preLoad, sent_ids, phase,
                    results, new_recs, report, prevFut, prevOK,
                    tmpFile, mail >>

\* except Exception: log, fall through to time.sleep(...)
FetchError(kw) ==
    /\ phase \in { "pool", "crashed" }
    /\ pc[kw] = "try"
    /\ pc' = [pc EXCEPT ![kw] = "sleep"]
    /\ outcome' = [outcome EXCEPT ![kw] = "error"]
    /\ waits' = [waits EXCEPT ![kw] = Append(@, Backoff(attempt[kw]))]
    /\ UNCHANGED << today, site, ledgerFile, preLoad, sent_ids, phase, attempt,
                    fut, results, new_recs, report, prevFut, prevOK,
                    tmpFile, mail >>

\* time.sleep is over: the next iteration of the for loop
Retry(kw) ==
    /\ phase \in { "pool", "crashed" }
    /\ pc[kw] = "sleep"
    /\ HasNextAttempt(attempt[kw])
    /\ pc' = [pc EXCEPT ![kw] = "try"]
    /\ attempt' = [attempt EXCEPT ![kw] = @ + 1]
    /\ UNCHANGED << today, site, ledgerFile, preLoad, sent_ids, phase, waits,
                    outcome, fut, results, new_recs, report, prevFut, prevOK,
                    tmpFile, mail >>

\* time.sleep is over and the range is exhausted: "Giving up", return []
GiveUp(kw) ==
    /\ phase \in { "pool", "crashed" }
    /\ pc[kw] = "sleep"
    /\ ~HasNextAttempt(attempt[kw])
    /\ Return(kw, "gaveup", << >>)
    /\ waits' = [waits EXCEPT ![kw] = << >>]
    /\ UNCHANGED << today, site, ledgerFile, preLoad, sent_ids, phase,
                    results, new_recs, report, prevFut, prevOK,
                    tmpFile, mail >>

\* one iteration of "for fut in as_completed(futures)": score, sort, filter
ProcessResult(kw) ==
    /\ phase = "pool"
    /\ pc[kw] = "done"
    /\ kw \notin Processed
    /\ LET f == RunFilter(ScoredSorted(fut[kw], kw), kw, sent_ids)
       IN  /\ new_recs' = new_recs \o Staged(f.filtered)
           /\ IF f.raised
              THEN /\ phase' = "crashed"
                   /\ UNCHANGED results
              ELSE /\ results' = Append(results, [kw |-> kw, filtered |-> f.filtered])
                   /\ UNCHANGED phase
    /\ UNCHANGED << today, site, ledgerFile, preLoad, sent_ids, pc, attempt,
                    waits, outcome, fut, report, prevFut, prevOK,
                    tmpFile, mail >>

\* a save_sent called as soon as one keyword has been filtered
SaveSentEarly ==
    /\ phase = "pool"
    /\ results # << >>
    /\ ledgerFile' = IF new_recs # << >> THEN save_sent(ledgerFile, new_recs)
                     ELSE ledgerFile
    /\ phase' = "report"
    /\ UNCHANGED << today, site, preLoad, sent_ids, pc, attempt, waits, outcome,
                    fut, results, new_recs, report, prevFut, prevOK,
                    tmpFile, mail >>

\* the pool is left; if new_recs: save_sent(new_recs)
SaveSent ==
    /\ phase = "pool"
    /\ Processed = KeywordSet
    /\ ledgerFile' = IF new_recs # << >> THEN save_sent(ledgerFile, new_recs)
                     ELSE ledgerFile
    /\ phase' = "report"
    /\ UNCHANGED << today, site, preLoad, sent_ids, pc, attempt, waits, outcome,
                    fut, results, new_recs, report, prevFut, prevOK,
                    tmpFile, mail >>

\* rows of main(): the accepted records of every keyword, in results order
RECURSIVE Rows(_)
Rows(res) ==
    IF res = << >> THEN << >> ELSE Head(res).filtered \o Rows(Tail(res))

\* if rows: to_excel writes the report; else log "No new bids."
WriteReport ==
    /\ phase = "report"
    /\ IF Rows(results) # << >>
       THEN /\ report' = [written |-> TRUE, rows |-> Rows(results)]
            /\ phase' = "notify"
       ELSE /\ report' = report
            /\ phase' = "done"
    /\ UNCHANGED << today, site, ledgerFile, preLoad, sent_ids, pc, attempt,
                    waits, outcome, fut, results, new_recs, prevFut, prevOK,
                    tmpFile, mail >>

\* os.makedirs or to_excel raises: nothing catches it, main() is left
WriteReportFails ==
    /\ phase = "report"
    /\ Rows(results) # << >>
    /\ phase' = "failed"
    /\ UNCHANGED << today, site, ledgerFile, preLoad, sent_ids, pc, attempt,
                    waits, outcome, fut, results, new_recs, report, prevFut,
                    prevOK, tmpFile, mail >>

\* send_email returns
EmailSent ==
    /\ phase = "notify"
    /\ mail' = "sent"
    /\ phase' = "done"
    /\ UNCHANGED << today, site, ledgerFile, preLoad, sent_ids, pc, attempt,
                    waits, outcome, fut, results, new_recs, report, prevFut,
                    prevOK, tmpFile >>

\* a send_email whose exception leaves main()
EmailFailsAborts ==
    /\ phase = "notify"
    /\ mail' = "failed"
    /\ phase' = "failed"
    /\ UNCHANGED << today, site, ledgerFile, preLoad, sent_ids, pc, attempt,
                    waits, outcome, fut, results, new_recs, report, prevFut,
                    prevOK, tmpFile >>

\* send_email raises: except: logger.exception("email failed")
EmailFails ==
    /\ phase = "notify"
    /\ mail' = "failed"
    /\ phase' = "done"
    /\ UNCHANGED << today, site, ledgerFile, preLoad, sent_ids, pc, attempt,
                    waits, outcome, fut, results, new_recs, report, prevFut,
                    prevOK, tmpFile >>

\* the process has ended (the pool is shut down, every task has returned);
\* the scheduler starts the next run
NextRun ==
    /\ phase \in { "done", "crashed", "failed" }
    /\ \A kw \in KeywordSet : pc[kw] = "done"
    /\ today' \in { d \in { today, today + 1 } : d <= MaxDay }
    /\ site' \in Sites
    /\ prevOK' = (phase = "done" /\ site' = site)
    /\ prevFut' = IF prevOK' THEN fut ELSE EmptyFut
    /\ phase' = "start"
    /\ sent_ids' = {}
    /\ pc' = [kw \in KeywordSet |-> "queued"]
    /\ attempt' = [kw \in KeywordSet |-> 0]
    /\ waits' = [kw \in KeywordSet |-> << >>]
    /\ outcome' = [kw \in KeywordSet |-> "none"]
    /\ fut' = EmptyFut
    /\ results' = << >>
    /\ new_recs' = << >>
    /\ report' = NoReport
    /\ mail' = "none"
    /\ UNCHANGED << ledgerFile, preLoad, tmpFile >>

Next ==
    \/ LoadRead
    \/ LoadWrite
    \/ LoadReplace
    \/ \E kw \in KeywordSet : StartTask(kw)
    \/ \E kw \in KeywordSet : FetchOk(kw)
    \/ \E kw \in KeywordSet, kind \in { "nav_timeout", "card_timeout" } : FetchTimeout(kw, kind)
    \/ \E kw \in KeywordSet : FetchError(kw)
    \/ \E kw \in KeywordSet : Retry(kw)
    \/ \E kw \in KeywordSet : GiveUp(kw)
    \/ \E kw \in KeywordSet : ProcessResult(kw)
    \/ SaveSent
    \/ WriteReport
    \/ WriteReportFails
    \/ EmailSent
    \/ EmailFails
    \/ LoadKilled
    \/ NextRun

Spec == Init /\ [][Next]_vars

\* one run of the program
RunNext ==
    \/ LoadRead
    \/ LoadWrite
    \/ LoadReplace
    \/ \E kw \in KeywordSet : StartTask(kw)
    \/ \E kw \in KeywordSet : FetchOk(kw)
    \/ \E kw \in KeywordSet, kind \in { "nav_timeout", "card_timeout" } : FetchTimeout(kw, kind)
    \/ \E kw \in KeywordSet : FetchError(kw)
    \/ \E kw \in KeywordSet : Retry(kw)
    \/ \E kw \in KeywordSet : GiveUp(kw)
    \/ \E kw \in KeywordSet : ProcessResult(kw)
    \/ SaveSent
    \/ WriteReport
    \/ WriteReportFails
    \/ EmailSent
    \/ EmailFails

\* a fetch attempt ends, one way or another: every wait in it has a timeout
FetchEnds(kw) ==
    \/ FetchOk(kw)
    \/ FetchError(kw)
    \/ \E kind \in { "nav_timeout", "card_timeout" } : FetchTimeout(kw, kind)

\* one run under a fair thread scheduler: a started task is not starved, a
\* fetch attempt ends, a sleep ends
FairSpec ==
    /\ Init
    /\ [][RunNext]_vars
    /\ \A kw \in KeywordSet :
          /\ WF_vars(StartTask(kw))
          /\ WF_vars(FetchEnds(kw))
          /\ WF_vars(Retry(kw))
          /\ WF_vars(GiveUp(kw))

\* ================================================================ claims
RowsOf(file) == { file.rows[i] : i \in DOMAIN file.rows }

RECURSIVE SumSeq(_)
SumSeq(q) == IF q = << >> THEN 0 ELSE Head(q) + SumSeq(Tail(q))

\* this run has ended, the previous run ended too, on the same marketplace
\* content, and every search returned what it returned in the previous run
RerunDone == phase = "done" /\ prevOK /\ fut = prevFut

NothingAccepted ==
    /\ new_recs = << >>
    /\ \A i \in DOMAIN results : results[i].filtered = << >>

\* a record the filter would accept if the ledger were empty
Acceptable(b, kw) == Gate(Scored(b, kw), kw, {}) = "accept"

\* C1 (as stated): a second run over identical fetch results, with the
\* ledger of the first run persisted, accepts no listing, whatever the end
\* dates of the listings are
C1_Idempotent == RerunDone => NothingAccepted

\* C1 (amended): a second run over identical fetch results accepts no
\* listing when no entry of the ledger left by the first run has an end
\* date before the date of the second run
C1_IdempotentUnexpired ==
    (RerunDone /\ \A r \in RowsOf(preLoad) : r.end_date >= today) => NothingAccepted

\* a re-run in which a listing that the gates would accept is held back by
\* the ledger entry the previous run wrote for it
C1_Witness ==
    /\ RerunDone
    /\ \A r \in RowsOf(preLoad) : r.end_date >= today
    /\ \E kw \in KeywordSet : \E i \in DOMAIN fut[kw] :
          /\ Acceptable(fut[kw][i], kw)
          /\ fut[kw][i].bid_no \in sent_ids

\* C2: the ledger file never holds two rows with the same bid_id, and no
\* bid_id is staged twice in new_recs within a run
C2_LedgerUnique ==
    /\ \A i, j \in DOMAIN ledgerFile.rows :
          i # j => ledgerFile.rows[i].bid_no # ledgerFile.rows[j].bid_no
    /\ \A i, j \in DOMAIN new_recs :
          i # j => new_recs[i].bid_no # new_recs[j].bid_no

\* C3: between load_sent and save_sent the ledger file holds exactly the
\* entries of the loaded file that end today or later, in their order, the
\* entries ending before today are gone, and sent_ids holds a bid_id iff one
\* of its entries was retained
C3_ExpiryOnLoad ==
    phase \in { "pool", "crashed" } =>
        LET old == preLoad.rows
            kept == { i \in DOMAIN old : old[i].end_date >= today }
            new == ledgerFile.rows
        IN  /\ Len(new) = Cardinality(kept)
            /\ \A n \in DOMAIN new :
                  \E i \in kept : /\ new[n] = old[i]
                                  /\ Cardinality({ m \in kept : m < i }) = n - 1
            /\ \A n \in DOMAIN new : ~(new[n].end_date < today)
            /\ \A b \in { "B1", "B2" } :
                  b \in sent_ids <=> \E i \in kept : old[i].bid_no = b

\* a load that pruned an entry dated yesterday and kept one dated today
C3_Witness ==
    /\ phase = "pool"
    /\ \E i \in DOMAIN preLoad.rows : preLoad.rows[i].end_date = today - 1
    /\ \E i \in DOMAIN preLoad.rows :
          /\ preLoad.rows[i].end_date = today
          /\ preLoad.rows[i] \in RowsOf(ledgerFile)
    /\ \A r \in RowsOf(ledgerFile) : r.end_date >= today

\* C4: when search_gem returns the listings of a successful attempt, all
\* earlier attempts having failed with a non-timeout error, the sleep before
\* attempt i+1 was BACKOFF*2^(i-1) and the sleeps add up to the sum of these
C4_RetryBackoff ==
    [][\A kw \in KeywordSet :
          (pc[kw] = "try" /\ pc'[kw] = "done" /\ outcome'[kw] = "ok") =>
              /\ fut'[kw] = ExtractAll(site[kw], today)
              /\ Len(waits[kw]) = attempt[kw] - 1
              /\ \A i \in DOMAIN waits[kw] : waits[kw][i] = BACKOFF * (2 ^ (i - 1))
              /\ SumSeq(waits[kw]) = BACKOFF * ((2 ^ (attempt[kw] - 1)) - 1)]_vars

\* the last attempt is under way after RETRIES-1 failed ones and their sleeps
C4_Witness ==
    \E kw \in KeywordSet :
        /\ pc[kw] = "try"
        /\ attempt[kw] = RETRIES
        /\ outcome[kw] = "error"
        /\ SumSeq(waits[kw]) = 6
        /\ site[kw] # << >>

\* C5: an attempt that ends in a navigation timeout ends the task at once,
\* on whichever attempt: the future holds [], no sleep follows, and the
\* task makes no further attempt in this run
C5_TimeoutAbandons ==
    [][\A kw \in KeywordSet :
          /\ (pc[kw] = "try" /\ pc'[kw] # "try" /\ outcome'[kw] = "nav_timeout") =>
                (pc'[kw] = "done" /\ fut'[kw] = << >> /\ phase' = phase)
          /\ (pc[kw] = "done" /\ outcome[kw] = "nav_timeout") =>
                (pc'[kw] = "done" \/ phase' = "start")]_vars

\* a keyword abandoned on a navigation timeout although the marketplace has
\* listings for it, while another keyword is retrying
C5_Witness ==
    \E kw, other \in KeywordSet :
        /\ pc[kw] = "done"
        /\ outcome[kw] = "nav_timeout"
        /\ fut[kw] = << >>
        /\ site[kw] # << >>
        /\ attempt[other] > 1

\* C6 (as stated): an attempt that fails with a network error or because the
\* card is not found within its element timeout is followed by a sleep
C6_TransientRetried ==
    [][\A kw \in KeywordSet :
          (pc[kw] = "try" /\ pc'[kw] # "try"
             /\ outcome'[kw] \in { "error", "card_timeout" }) =>
                pc'[kw] = "sleep"]_vars

\* C6 (amended): an attempt that fails with a non-timeout error is followed
\* by the backoff sleep and, while fewer than RETRIES attempts were made, by
\* another attempt; the keyword is given up only after RETRIES attempts; an
\* element timeout ends the task at once like a navigation timeout
C6_ErrorRetried ==
    [][\A kw \in KeywordSet :
          /\ (pc[kw] = "try" /\ pc'[kw] # "try" /\ outcome'[kw] = "error") =>
                /\ pc'[kw] = "sleep"
                /\ waits'[kw] = Append(waits[kw], BACKOFF * (2 ^ (attempt[kw] - 1)))
          /\ (pc[kw] = "sleep" /\ pc'[kw] # "sleep" /\ phase' # "start") =>
                IF attempt[kw] < RETRIES
                THEN pc'[kw] = "try" /\ attempt'[kw] = attempt[kw] + 1
                ELSE pc'[kw] = "done" /\ outcome'[kw] = "gaveup" /\ fut'[kw] = << >>
          /\ (pc[kw] = "try" /\ pc'[kw] # "try" /\ outcome'[kw] = "card_timeout") =>
                (pc'[kw] = "done" /\ fut'[kw] = << >>)]_vars

\* a second attempt under way after a failed first one and its sleep
C6_Witness ==
    \E kw \in KeywordSet :
        /\ pc[kw] = "try"
        /\ attempt[kw] = 2
        /\ outcome[kw] = "error"
        /\ waits[kw] = << BACKOFF >>

\* C7: search_gem makes at most RETRIES fetch attempts, a started task
\* always returns, and a task whose RETRIES attempts all failed returns []
\* without raising: the main thread is not disturbed
C7_BoundedRetries ==
    /\ [](\A kw \in KeywordSet : attempt[kw] <= RETRIES)
    /\ [][\A kw \in KeywordSet :
             (pc[kw] # "done" /\ outcome'[kw] = "gaveup" /\ pc'[kw] = "done") =>
                 /\ attempt[kw] = RETRIES
                 /\ outcome[kw] = "error"
                 /\ fut'[kw] = << >>
                 /\ phase' = phase /\ results' = results]_vars
    /\ \A kw \in KeywordSet : (pc[kw] \in { "try", "sleep" }) ~> (pc[kw] = "done")

\* a keyword given up after all attempts failed, with listings on the
\* marketplace, whose empty result the main thread has recorded
C7_Witness ==
    \E kw \in KeywordSet :
        /\ pc[kw] = "done"
        /\ outcome[kw] = "gaveup"
        /\ fut[kw] = << >>
        /\ site[kw] # << >>
        /\ kw \in Processed

\* C8: when the run is over, results holds exactly one entry for every
\* keyword, whatever the outcomes of the tasks were
C8_KeywordIsolation ==
    phase \in { "report", "done", "crashed" } =>
        \A kw \in KeywordSet :
            Cardinality({ i \in DOMAIN results : results[i].kw = kw }) = 1

\* the five gates, from the ledger set loaded at the start of the run
C9_Passes(rec, kw) ==
    LET k == Cardinality(Tokens(kw))
        c == Cardinality(Tokens(kw) \cap Tokens(rec.items))
    IN  /\ rec.bid_no \notin sent_ids
        /\ PhraseMatch(kw, rec.items)
        /\ ~PenaltyMatch(rec.items)
        /\ k > 0
        /\ IF k <= 1 THEN c >= k ELSE c * k >= (k - 1) * k
        /\ rec.total_score >=
              (IF kw = KW_TONER THEN TONER_THRESHOLD
               ELSE IF k > 1 THEN DEFAULT_MULTI ELSE DEFAULT_SINGLE)

\* C9: the output set of a keyword holds exactly its scored listings that
\* pass the five gates, new_recs holds exactly the (bid_no, end_date) of the
\* listings in the output sets, and the gates are tried in order: the main
\* thread fails in the coverage test only on a listing that has passed the
\* ledger, phrase and penalty tests
C9_FilterChain ==
    /\ \A n \in DOMAIN results :
          results[n].filtered =
              SelectSeq(ScoredSorted(fut[results[n].kw], results[n].kw),
                        LAMBDA r : C9_Passes(r, results[n].kw))
    /\ new_recs = [i \in DOMAIN Rows(results) |->
                      Row(Rows(results)[i].bid_no, Rows(results)[i].end_date)]
    /\ phase = "crashed" =>
          \E kw \in KeywordSet \ Processed : \E i \in DOMAIN fut[kw] :
              /\ pc[kw] = "done"
              /\ fut[kw][i].bid_no \notin sent_ids
              /\ PhraseMatch(kw, fut[kw][i].items)
              /\ ~PenaltyMatch(fut[kw][i].items)

\* a keyword with an accepted and a rejected listing; another keyword whose
\* only listing is held back by the ledger
C9_Witness ==
    /\ \E n \in DOMAIN results :
          /\ results[n].filtered # << >>
          /\ Len(results[n].filtered) < Len(fut[results[n].kw])
    /\ \E n \in DOMAIN results :
          /\ results[n].filtered = << >>
          /\ \E i \in DOMAIN fut[results[n].kw] :
                fut[results[n].kw][i].bid_no \in sent_ids
    /\ new_recs # << >>

\* C10: the coverage test decides every listing of every keyword: with k
\* core tokens it passes a listing that misses none, passes one that misses
\* exactly one when k > 1, and rejects every other
C10_CoverageGate ==
    \A kw \in KeywordSet : \A i \in DOMAIN fut[kw] :
        LET k == Cardinality(Tokens(kw))
            miss == Cardinality(Tokens(kw) \ Tokens(fut[kw][i].items))
        IN  /\ coverage_threshold(k) = IF k <= 1 THEN << 1, 1 >> ELSE << k - 1, k >>
            /\ CoverageGate(kw, fut[kw][i].items) =
                  IF miss = 0 \/ (k > 1 /\ miss = 1) THEN "pass" ELSE "reject"

\* a standalone penalty word in an item text, whatever its case
C11_HasPenaltyWord(items) ==
    \E i \in DOMAIN items :
        Lower(items[i]) \in { "spare", "spares", "component", "components",
                              "part", "parts" }

\* C11: no listing whose item text contains a standalone penalty word is in
\* the output set of any keyword or in the report, whatever its score and
\* whatever the keyword's threshold
C11_PenaltyExclusion ==
    /\ \A n \in DOMAIN results : \A i \in DOMAIN results[n].filtered :
          ~C11_HasPenaltyWord(results[n].filtered[i].items)
    /\ \A i \in DOMAIN report.rows : ~C11_HasPenaltyWord(report.rows[i].items)

\* a processed keyword with a listing that carries a penalty word, is not in
\* the ledger, matches the phrase, covers the core tokens and scores at
\* least the threshold, and is not in the output set
C11_Witness ==
    \E n \in DOMAIN results : \E i \in DOMAIN fut[results[n].kw] :
        LET kw == results[n].kw
            rec == Scored(fut[kw][i], kw)
        IN  /\ C11_HasPenaltyWord(rec.items)
            /\ rec.bid_no \notin sent_ids
            /\ PhraseMatch(kw, rec.items)
            /\ CoverageGate(kw, rec.items) = "pass"
            /\ rec.total_score >= Thresh(kw)
            /\ \A j \in DOMAIN results[n].filtered :
                  results[n].filtered[j].bid_no # rec.bid_no

\* C12: within the output set of one keyword, and among the report rows of
\* one keyword, the listings are in non-increasing order of total_score
C12_AggregatorOrdering ==
    /\ \A n \in DOMAIN results : \A i, j \in DOMAIN results[n].filtered :
          i < j => results[n].filtered[i].total_score >=
                   results[n].filtered[j].total_score
    /\ \A i, j \in DOMAIN report.rows :
          (i < j /\ report.rows[i].keyword = report.rows[j].keyword)
              => report.rows[i].total_score >= report.rows[j].total_score

\* a written report with two rows of one keyword, the first scoring more,
\* that the marketplace returned in the other order
C12_Witness ==
    /\ report.written
    /\ \E i, j \in DOMAIN report.rows :
          /\ i < j
          /\ report.rows[i].keyword = report.rows[j].keyword
          /\ report.rows[i].total_score > report.rows[j].total_score
          /\ \E a, b \in DOMAIN fut[report.rows[i].keyword] :
                /\ a < b
                /\ fut[report.rows[i].keyword][a].bid_no = report.rows[j].bid_no
                /\ fut[report.rows[i].keyword][b].bid_no = report.rows[i].bid_no

\* C13: a run that ends with no listing accepted for any keyword has
\* written no report, attempted no notification, appended nothing to the
\* ledger and finished normally; a run that ends with at least one listing
\* accepted has written a report and attempted the notification (a run
\* whose report could not be written is left aside)
C13_EmptyOutcome ==
    phase \in { "done", "crashed" } =>
        IF \E n \in DOMAIN results : results[n].filtered # << >>
        THEN report.written /\ mail # "none"
        ELSE /\ ~report.written
             /\ mail = "none"
             /\ ledgerFile.rows = keep_rows(preLoad, today)
             /\ phase = "done"

\* C14: a listing on which scoring raises gets the total score zero; the
\* other listings of its keyword are scored and filtered as usual, and the
\* main thread fails only in the coverage test of a keyword without core
\* tokens, never because of the scoring error
C14_ScoringFailure ==
    /\ \A kw \in KeywordSet : \A i \in DOMAIN fut[kw] :
          fut[kw][i].items = T_ERR => Scored(fut[kw][i], kw).total_score = 0
    /\ \A n \in DOMAIN results :
          LET kw == results[n].kw
          IN  \A i \in DOMAIN fut[kw] :
                  (fut[kw][i].items # T_ERR /\ Acceptable(fut[kw][i], kw)
                       /\ fut[kw][i].bid_no \notin sent_ids)
                      => \E j \in DOMAIN results[n].filtered :
                            results[n].filtered[j].bid_no = fut[kw][i].bid_no
    /\ phase = "crashed" =>
          \E kw \in KeywordSet \ Processed :
              pc[kw] = "done" /\ fut[kw] # << >> /\ Tokens(kw) = {}

\* the run is over, every keyword has been filtered; the keyword with the
\* listing on which scoring raised has another listing accepted, and a
\* keyword processed after it has an accepted listing too
C14_Witness ==
    /\ phase = "done"
    /\ \E n, m \in DOMAIN results :
          /\ n < m
          /\ \E i \in DOMAIN fut[results[n].kw] :
                fut[results[n].kw][i].items = T_ERR
          /\ results[n].filtered # << >>
          /\ results[m].filtered # << >>

\* C15: the notification is attempted only once the report of this run is
\* written; after a failed delivery the run has ended normally, the report
\* is still there and the ledger still holds the batch of this run
C15_NotificationFailure ==
    /\ (phase = "notify" \/ mail # "none") =>
          report.written /\ report.rows = Rows(results)
    /\ mail = "failed" =>
          /\ phase = "done"
          /\ new_recs # << >>
          /\ ledgerFile.rows = keep_rows(preLoad, today) \o new_recs

\* the delivery has failed in a run that accepted listings
C15_Witness ==
    /\ mail = "failed"
    /\ phase = "done"
    /\ report.written
    /\ Len(ledgerFile.rows) > Len(keep_rows(preLoad, today))

\* C16: the ledger is read and rewritten by load_sent before any keyword
\* task has started, and appended to in one step after every keyword task
\* has returned and every keyword has been filtered; keyword tasks move only
\* between these two; the membership set changes only when load_sent
\* returns (or the process ends)
C16_LedgerSequential ==
    [][ /\ (phase = "loading" \/ phase' = "loading") =>
              \A kw \in KeywordSet : pc[kw] = "queued" /\ pc'[kw] = "queued"
        /\ ledgerFile' # ledgerFile =>
              \/ phase = "loading" /\ phase' = "pool"
              \/ /\ phase = "pool" /\ phase' = "report"
                 /\ \A kw \in KeywordSet : pc[kw] = "done"
                 /\ Processed = KeywordSet
        /\ phase' = "pool" => phase \in { "loading", "pool" }
        /\ phase = "report" => phase' \in { "report", "notify", "done", "failed" }
        /\ (pc' # pc /\ phase' # "start") =>
              phase \in { "pool", "crashed" } /\ phase' = phase
        /\ sent_ids' # sent_ids =>
              (phase = "loading" /\ phase' = "pool") \/ phase' = "start"
      ]_vars

\* the batch has just been appended: a ledger that load_sent had pruned to
\* a non-empty membership set, every keyword filtered
C16_Witness ==
    /\ phase = "report"
    /\ sent_ids # {}
    /\ Processed = KeywordSet
    /\ Len(ledgerFile.rows) > Len(keep_rows(preLoad, today))

\* the bid_ids of the rows of a ledger file
C17_Ids(file) == { file.rows[i].bid_no : i \in DOMAIN file.rows }

\* C17: every step taken inside load_sent, its being stopped included,
\* leaves the ledger file either as it was before the load or holding
\* exactly the pruned rows; when load_sent has returned, the bid_ids in the
\* file are the returned membership set
C17_CrashSafePruning ==
    [][ /\ phase = "loading" =>
              \/ ledgerFile' = ledgerFile
              \/ ledgerFile' = File(keep_rows(ledgerFile, today))
        /\ (phase = "loading" /\ phase' = "pool") =>
              /\ ledgerFile' = File(keep_rows(ledgerFile, today))
              /\ C17_Ids(ledgerFile') = sent_ids'
      ]_vars

\* load_sent has written some but not all of the rows it keeps, and the
\* ledger file is still the one it read
C17_Witness ==
    /\ phase = "loading"
    /\ tmpFile # << >>
    /\ Len(tmpFile) < Len(keep_rows(preLoad, today))
    /\ ledgerFile = preLoad

\* C18: a search has waited at most (attempts made - 1) times when it makes
\* an attempt, and it never waits after its last permitted attempt
C18_WaitsBetweenAttempts ==
    \A kw \in KeywordSet :
        /\ pc[kw] = "try" => Len(waits[kw]) <= attempt[kw] - 1
        /\ pc[kw] = "sleep" => attempt[kw] < RETRIES

\* C19: a ledger entry stays in the file as long as its end_date is not
\* before the UTC date, the batch of a run is in the file once appended, and
\* no run accepts, for any keyword, a listing whose bid_id has an entry in
\* the file it loaded with an end_date not before the run's UTC date,
\* whatever the listing now looks like
C19_NoResurfacing ==
    [][ /\ \A r \in RowsOf(ledgerFile) :
              r.end_date >= today => r \in RowsOf(ledgerFile')
        /\ (phase = "pool" /\ phase' = "report") =>
              \A i \in DOMAIN new_recs : new_recs[i] \in RowsOf(ledgerFile')
        /\ \A n \in DOMAIN results' : \A i \in DOMAIN results'[n].filtered :
              ~\E r \in RowsOf(preLoad') :
                  /\ r.bid_no = results'[n].filtered[i].bid_no
                  /\ r.end_date >= today'
      ]_vars

\* a finished run in which a listing that would pass every other gate is
\* held back by an unexpired entry the ledger file had when loaded; the
\* entry was written for a listing with another text, department and score
C19_Witness ==
    /\ phase = "done"
    /\ \E kw \in Processed : \E i \in DOMAIN fut[kw] :
          /\ fut[kw][i].items = T_PT_CAP
          /\ Acceptable(fut[kw][i], kw)
          /\ \E r \in RowsOf(preLoad) :
                r.bid_no = fut[kw][i].bid_no /\ r.end_date >= today
          /\ \A n \in DOMAIN results : \A j \in DOMAIN results[n].filtered :
                results[n].filtered[j].bid_no # fut[kw][i].bid_no

\* C20: when a run has ended, the entries it appended to the ledger are,
\* one for one and in order, the bid_ids of the rows of its report, and
\* entries were appended only if that report was written
C20_LedgerMatchesReport ==
    phase \in { "done", "crashed", "failed" } =>
        LET kept == Len(keep_rows(preLoad, today))
            appended == SubSeq(ledgerFile.rows, kept + 1, Len(ledgerFile.rows))
        IN  /\ Len(appended) = Len(report.rows)
            /\ \A i \in DOMAIN appended :
                  appended[i].bid_no = report.rows[i].bid_no
            /\ appended # << >> => report.written

====
